---- MODULE Spec2Model ----
(***************************************************************************)
(* A model of visbrain/utils/sleep/fileconvert.py: the recording format    *)
(* dispatcher, the four format readers, the hypnogram loader and the ELAN  *)
(* hypnogram writer.                                                       *)
(*                                                                         *)
(* Conventions.                                                            *)
(*  - A file name is a sequence of components, <<"rec", ".eeg", ".ent">>   *)
(*    for rec.eeg.ent: os.path.splitext cuts the last component off and    *)
(*    path + '.ent' appends one.                                           *)
(*  - A text file is a sequence of lines; a line is [key, val] with key    *)
(*    "int" for a line that holds one integer and another key for text.    *)
(*  - A Python call ends in a record [exc, val]: exc = "" is a normal      *)
(*    return, anything else names the exception raised.                    *)
(*  - np.genfromtxt is taken to return a 1-D array of the file's lines;    *)
(*    text files of the input domain hold at least two lines. numpy is one *)
(*    that still has np.int.                                               *)
(***************************************************************************)
EXTENDS Integers, Sequences, FiniteSets, TLC

VARIABLES pc, call, hypFile

vars == <<pc, call, hypFile>>

----------------------------------------------------------------------------
(* Bounds of the model *)

MaxVals == 3
MaxNpts == 7
MaxDescLines == 2
MaxSwapLen == 2
MaxEpochs == 3
MaxSf == 2
MaxSfori == 2
MaxN == 6
MaxChan == 4
MaxSamples == 6

----------------------------------------------------------------------------
(* Arithmetic *)

Min(a, b) == IF a <= b THEN a ELSE b

\* np.round(a / b) for a >= 0, b > 0: round half to even
NpRound(a, b) ==
    LET q == a \div b
        r == a % b
    IN  IF 2 * r < b THEN q
        ELSE IF 2 * r > b THEN q + 1
        ELSE IF q % 2 = 0 THEN q ELSE q + 1

\* ceil(a / b) for a >= 0, b > 0
CeilDiv(a, b) == (a + b - 1) \div b

RECURSIVE SeqsUpTo(_, _)
SeqsUpTo(S, n) ==
    IF n = 0 THEN {<<>>}
    ELSE LET shorter == SeqsUpTo(S, n - 1)
         IN  shorter \cup {Append(s, x) : s \in {t \in shorter : Len(t) = n - 1}, x \in S}

----------------------------------------------------------------------------
(* Python results *)

Return(v) == [exc |-> "", val |-> v]
Raise(e)  == [exc |-> e, val |-> <<>>]

\* hypno[cond] = new : every element equal to old becomes new, in place
AssignWhere(a, old, new) == [i \in DOMAIN a |-> IF a[i] = old THEN new ELSE a[i]]

\* np.repeat(a, rep): each element rep times, in order
NpRepeat(a, rep) == [i \in 1..(Len(a) * rep) |-> a[((i - 1) \div rep) + 1]]

\* np.append(a, v * np.ones((k,)))
PadWith(a, v, k) == a \o [i \in 1..k |-> v]

----------------------------------------------------------------------------
(* Text lines *)

IntLine(v)  == [key |-> "int", val |-> v]
TextLine(k, v) == [key |-> k, val |-> v]
Junk == TextLine("junk", 0)
IsInt(l) == l.key = "int"

\* genfromtxt(dtype=None): an integer array when every line is an integer,
\* an array of strings otherwise
AllInt(lines) == \A i \in DOMAIN lines : IsInt(lines[i])

----------------------------------------------------------------------------
(* Hypnogram loading: load_hypno, elan_hyp, txt_hyp, swap_hyp_values *)

\* elan_hyp: the three in-place reassignments, in the order of the code
StageRemapSwapped(hypno) ==
    AssignWhere(AssignWhere(AssignWhere(hypno, -2, -1), 5, 4), 4, 3)

ElanStageRemap(hypno) ==
    AssignWhere(AssignWhere(AssignWhere(hypno, -2, -1), 4, 3), 5, 4)

\* np.array(hyp[4:], dtype=np.int): the lines after the first four
ElanSkipHeader(hyp) == SubSeq(hyp, 5, Len(hyp))

\* int(np.floor(npts / len(hypno))), len(hypno) > 0
RepetitionCeil(npts, n) == CeilDiv(npts, n)

Repetition(npts, n) == npts \div n

elan_hyp(file, npts) ==
    LET hyp   == file.lines
        body  == ElanSkipHeader(hyp)
        ints  == [i \in DOMAIN body |-> body[i].val]
        hypno == ElanStageRemap(ints)
    IN  IF AllInt(hyp) THEN Raise("TypeError")              \* np.char.decode of numbers
        ELSE IF ~AllInt(body) THEN Raise("ValueError")      \* int() of text
        ELSE IF Len(hypno) = 0 THEN Raise("ZeroDivisionError")
        ELSE Return(NpRepeat(hypno, Repetition(npts, Len(hypno))))

\* desc = {label: row for label, row in zip(labels, values)}: the last line
\* of a label is the one kept
DescHas(desc, label) == \E i \in DOMAIN desc : desc[i].label = label

DescGet(desc, label) ==
    LET last == CHOOSE i \in DOMAIN desc :
                    /\ desc[i].label = label
                    /\ \A j \in DOMAIN desc : desc[j].label = label => j <= i
    IN  desc[last].value

\* The assignments of swap_hyp_values, in the order of the code
SwapOrderN4AsRem ==
    << <<"Art", -1>>, <<"Nde", -1>>, <<"Mt", -1>>, <<"W", 0>>, <<"N1", 1>>,
       <<"N2", 2>>, <<"N3", 3>>, <<"N4", 4>>, <<"REM", 4>> >>

SwapOrder ==
    << <<"Art", -1>>, <<"Nde", -1>>, <<"Mt", -1>>, <<"W", 0>>, <<"N1", 1>>,
       <<"N2", 2>>, <<"N3", 3>>, <<"N4", 3>>, <<"REM", 4>> >>

\* if label in desc: hypno_s[hypno == desc[label]] = stage
SwapStep(hypno_s, hypno, desc, step) ==
    IF DescHas(desc, step[1])
    THEN [i \in DOMAIN hypno_s |->
             IF hypno[i] = DescGet(desc, step[1]) THEN step[2] ELSE hypno_s[i]]
    ELSE hypno_s

RECURSIVE SwapFrom(_, _, _, _)
SwapFrom(hypno_s, hypno, desc, k) ==
    IF k > Len(SwapOrder) THEN hypno_s
    ELSE SwapFrom(SwapStep(hypno_s, hypno, desc, SwapOrder[k]), hypno, desc, k + 1)

\* hypno_s = -1 * np.ones(shape=(hypno.shape), dtype=int), then the swaps
SwapKeepUnmapped(hypno, desc) == SwapFrom(hypno, hypno, desc, 1)

swap_hyp_values(hypno, desc) ==
    SwapFrom([i \in DOMAIN hypno |-> -1], hypno, desc, 1)

\* [s for s in hyp if s.lstrip('-').isdigit()]
RECURSIVE DigitLines(_)
DigitLines(hyp) ==
    IF hyp = <<>> THEN <<>>
    ELSE IF IsInt(Head(hyp)) THEN <<Head(hyp).val>> \o DigitLines(Tail(hyp))
    ELSE DigitLines(Tail(hyp))

txt_hyp(file, npts) ==
    LET hyp   == file.lines
        raw   == IF AllInt(hyp) THEN [i \in DOMAIN hyp |-> hyp[i].val]
                 ELSE DigitLines(hyp)
        hypno == swap_hyp_values(raw, file.desc.lines)
    IN  IF ~file.desc.exists THEN Raise("AssertionError")
        ELSE IF Len(hypno) = 0 THEN Raise("ZeroDivisionError")
        ELSE Return(NpRepeat(hypno, Repetition(npts, Len(hypno))))

\* load_hypno, lines 129-138: complete the hypnogram if needed
Complete(hypno, npts) ==
    LET n == Len(hypno)
    IN  IF n < npts
        THEN IF n = 0 THEN Raise("IndexError")               \* hypno[-1] of nothing
             ELSE Return(PadWith(hypno, hypno[n], npts - n))
        ELSE IF n > npts THEN Raise("ValueError")
        ELSE Return(hypno)

\* The try block of load_hypno
LoadTry(file, npts) ==
    LET read == IF file.ext = ".hyp" THEN elan_hyp(file, npts) ELSE txt_hyp(file, npts)
    IN  IF read.exc # "" THEN read ELSE Complete(read.val, npts)

\* What load_hypno hands to its caller: kind is "array", "None" or "raise"
LoadResultPropagate(file, npts) ==
    IF ~file.exists THEN [kind |-> "raise", val |-> <<>>, exc |-> "AssertionError"]
    ELSE IF file.ext \notin {".hyp", ".txt", ".csv"}
    THEN [kind |-> "None", val |-> <<>>, exc |-> ""]
    ELSE LET r == LoadTry(file, npts)
         IN  IF r.exc # "" THEN [kind |-> "raise", val |-> <<>>, exc |-> r.exc]
             ELSE [kind |-> "array", val |-> r.val, exc |-> ""]

LoadResult(file, npts) ==
    IF ~file.exists THEN [kind |-> "raise", val |-> <<>>, exc |-> "AssertionError"]
    ELSE IF file.ext \notin {".hyp", ".txt", ".csv"}
    THEN [kind |-> "None", val |-> <<>>, exc |-> ""]
    ELSE LET r == LoadTry(file, npts)
         IN  IF r.exc # "" THEN [kind |-> "None", val |-> <<>>, exc |-> r.exc]
             ELSE [kind |-> "array", val |-> r.val, exc |-> ""]

----------------------------------------------------------------------------
(* Files on disk *)

DescLine(l, v) == [label |-> l, value |-> v]

NoDesc == [exists |-> FALSE, lines |-> <<>>]

\* The description save_hypnoTotxt writes (window = 1)
VisbrainDesc ==
    [exists |-> TRUE,
     lines  |-> << DescLine("time", 1), DescLine("W", 0), DescLine("N1", 1),
                   DescLine("N2", 2), DescLine("N3", 3), DescLine("REM", 4),
                   DescLine("Art", -1) >>]

\* The description of the DREAM bank, from the docstring of swap_hyp_values
DreamDesc ==
    [exists |-> TRUE,
     lines  |-> << DescLine("W", 5), DescLine("N1", 3), DescLine("N2", 2),
                   DescLine("N3", 1), DescLine("REM", 0) >>]

NoFile == [exists |-> FALSE, ext |-> "", lines |-> <<>>, desc |-> NoDesc]

File(e, ls, d) == [exists |-> TRUE, ext |-> e, lines |-> ls, desc |-> d]

\* The four header lines of an ELAN hypnogram
ElanHeader(sfori, epoch_nb) ==
    << TextLine("time_base", 1), TextLine("sampling_period", sfori),
       TextLine("epoch_nb", epoch_nb), TextLine("epoch_list", 0) >>

\* Stage codes a hypnogram file may hold, and a line that is no number
RawCodes == {-2, -1, 0, 1, 2, 3, 4, 5, 6}

Bodies == SeqsUpTo({IntLine(v) : v \in RawCodes} \cup {Junk}, MaxVals)

\* .hyp files: a full header, a header one line short, or none
HypFiles ==
    {File(".hyp", h \o b, NoDesc) :
        h \in {ElanHeader(1, 0), SubSeq(ElanHeader(1, 0), 1, 3), <<>>}, b \in Bodies}

\* .txt and .csv files of at least two lines, with or without a description
TxtFiles ==
    {File(".txt", h \o b, d) :
        h \in {<<>>, <<Junk>>}, b \in {x \in Bodies : Len(x) >= 2},
        d \in {NoDesc, VisbrainDesc, DreamDesc}}
    \cup {File(".csv", b, VisbrainDesc) : b \in {x \in Bodies : Len(x) >= 2}}

\* Files of an extension load_hypno does not know
OtherFiles == {File(e, <<IntLine(0), IntLine(1)>>, NoDesc) : e \in {".HYP", ".edf"}}

HypnoFiles == HypFiles \cup TxtFiles \cup OtherFiles

----------------------------------------------------------------------------
(* The state machine *)

NoCall == [op |-> "none"]

InitHypno ==
    /\ pc = "idle"
    /\ call = NoCall
    /\ hypFile \in HypnoFiles \cup {NoFile}

\* load_hypno(path, npts) on the hypnogram file on disk
LoadHypno ==
    /\ pc \in {"idle", "written"}
    /\ \E npts \in 0..MaxNpts :
          call' = [op |-> "load_hypno", file |-> hypFile, npts |-> npts,
                   ret |-> LoadResult(hypFile, npts)]
    /\ pc' = "done"
    /\ UNCHANGED hypFile

NextHypno == LoadHypno

SpecHypno == InitHypno /\ [][NextHypno]_vars

(* swap_hyp_values called on its own *)

SwapLabels == {"Art", "Nde", "Mt", "W", "N1", "N2", "N3", "N4", "REM", "time"}
SwapCodes  == {0, 5}
Unmapped   == 9

DescInputs == SeqsUpTo({DescLine(l, v) : l \in SwapLabels, v \in SwapCodes}, MaxDescLines)

\* The two arrays after the call: the one returned and the one passed in
SwapCall(hypno, desc) ==
    [hypno_s |-> swap_hyp_values(hypno, desc), hypno |-> hypno]

InitSwap ==
    /\ pc = "idle"
    /\ call = NoCall
    /\ hypFile = NoFile

SwapHypValues ==
    /\ pc = "idle"
    /\ hypFile = NoFile
    /\ \E hypno \in SeqsUpTo(SwapCodes \cup {Unmapped}, MaxSwapLen), desc \in DescInputs :
          call' = [op |-> "swap_hyp_values", hypno |-> hypno, desc |-> desc,
                   after |-> SwapCall(hypno, desc)]
    /\ pc' = "done"
    /\ UNCHANGED hypFile

NextSwap == SwapHypValues

SpecSwap == InitSwap /\ [][NextSwap]_vars

----------------------------------------------------------------------------
(* Hypnogram writing: save_hypnoToElan *)

\* hypno[::step], step >= 1: the values at 0, step, 2 * step, ...
Strided(a, step) == [k \in 1..CeilDiv(Len(a), step) |-> a[(k - 1) * step + 1]]

\* step = int(hypno.shape / np.round(N / sfori)), np.round(N / sfori) > 0
SaveStep(n, N, sfori) == n \div NpRound(N, sfori)

\* save_hypnoToElan(filename, hypno, sf, sfori, N): the lines written, or the
\* exception that ends the call before anything is written
save_hypnoToElan(hypno, sf, sfori, N) ==
    LET elan == AssignWhere(hypno, 4, 5)
        step == SaveStep(Len(hypno), N, sfori)
    IN  IF NpRound(N, sfori) = 0 THEN Raise("OverflowError")   \* int(inf)
        ELSE IF step = 0 THEN Raise("ValueError")              \* hypno[::0]
        ELSE Return(ElanHeader(sfori, N \div sfori)
                    \o [k \in 1..CeilDiv(Len(elan), step) |-> IntLine(Strided(elan, step)[k])])

\* save_hypnoTotxt(filename, hypno, sf, sfori, N): the lines written to
\* filename, or the exception that ends the call before anything is written;
\* the description file is written last
save_hypnoTotxt(hypno, sf, sfori, N) ==
    LET step == SaveStep(Len(hypno), N, sfori)
    IN  IF NpRound(N, sfori) = 0 THEN Raise("OverflowError")   \* int(inf)
        ELSE IF step = 0 THEN Raise("ValueError")              \* hypno[::0]
        ELSE Return([k \in 1..CeilDiv(Len(hypno), step) |-> IntLine(Strided(hypno, step)[k])])

\* A hypnogram scored once per epoch of sf samples, n samples long
Expand(scores, sf, n) == [i \in 1..n |-> scores[((i - 1) \div sf) + 1]]

\* The hypnograms handed to the writer: 1 to MaxEpochs epochs of sf samples,
\* the last of them possibly cut short
HypnoInputs(sf) ==
    UNION {{Expand(scores, sf, n) : n \in ((Len(scores) - 1) * sf + 1)..(Len(scores) * sf)} :
              scores \in {x \in SeqsUpTo({-1, 0, 1, 2, 3, 4}, MaxEpochs) : Len(x) >= 1}}

InitWriter ==
    /\ pc = "idle"
    /\ call = NoCall
    /\ hypFile = NoFile

SaveHypnoToElan ==
    /\ pc = "idle"
    /\ hypFile = NoFile
    /\ \E sf \in 1..MaxSf, sfori \in 1..MaxSfori, N \in 1..MaxN :
         \E hypno \in HypnoInputs(sf) :
           LET r == save_hypnoToElan(hypno, sf, sfori, N)
           IN  /\ call' = [op |-> "save_hypnoToElan", hypno |-> hypno, sf |-> sf,
                           sfori |-> sfori, N |-> N, ret |-> r]
               /\ hypFile' = IF r.exc = "" THEN File(".hyp", r.val, NoDesc) ELSE hypFile
    /\ pc' = "written"

\* The file written is not read back in this model
SaveHypnoTotxt ==
    /\ pc = "idle"
    /\ hypFile = NoFile
    /\ \E sf \in 1..MaxSf, sfori \in 1..MaxSfori, N \in 1..MaxN :
         \E hypno \in HypnoInputs(sf) :
           LET r == save_hypnoTotxt(hypno, sf, sfori, N)
           IN  /\ call' = [op |-> "save_hypnoTotxt", hypno |-> hypno, sf |-> sf,
                           sfori |-> sfori, N |-> N, ret |-> r]
               /\ hypFile' = IF r.exc = "" THEN File(".txt", r.val, VisbrainDesc) ELSE hypFile
    /\ pc' = "done"

NextSave == SaveHypnoToElan \/ SaveHypnoTotxt

SpecSave == InitWriter /\ [][NextSave]_vars

NextRoundTrip == SaveHypnoToElan \/ LoadHypno

SpecRoundTrip == InitWriter /\ [][NextRoundTrip]_vars

----------------------------------------------------------------------------
(* Recording readers: the decimation they share *)

RECURSIVE Gcd(_, _)
Gcd(a, b) == IF b = 0 THEN a ELSE Gcd(b, a % b)

\* A frequency is a fraction num / den of integers, num >= 0, den > 0, in
\* lowest terms
Rat(n, d) == [num |-> n \div Gcd(n, d), den |-> d \div Gcd(n, d)]

\* The downsample argument: None, or a frequency in Hz
NoTarget  == [given |-> FALSE, hz |-> 0]
Target(f) == [given |-> TRUE, hz |-> f]

\* The downsample value a reader returns: None, or a frequency
NoneFreq     == [none |-> TRUE, num |-> 0, den |-> 1]
SomeFreq(r)  == [none |-> FALSE, num |-> r.num, den |-> r.den]

\* check_downsampling(sf, ds) of visbrain.utils.others: refuses a target
\* <= 0 or > sf, and returns the frequency actually obtained, sf / round(sf / ds)
check_downsampling(sf, hz) ==
    IF hz <= 0 \/ hz * sf.den > sf.num
    THEN Raise("ValueError")
    ELSE Return(Rat(sf.num, sf.den * NpRound(sf.num, sf.den * hz)))

\* Lines 395-401 (and 465-471, 592-598, 698-704): the value of downsample
\* and of ds after the block
DecimateKeepTarget(sf, downsample) ==
    IF ~downsample.given
    THEN [exc |-> "", downsample |-> NoneFreq, ds |-> 1]
    ELSE LET c == check_downsampling(sf, downsample.hz)
         IN  IF c.exc # "" THEN [exc |-> c.exc, downsample |-> NoneFreq, ds |-> 0]
             ELSE [exc |-> "", downsample |-> SomeFreq(Rat(downsample.hz, 1)),
                   ds |-> NpRound(sf.num, sf.den * downsample.hz)]

Decimate(sf, downsample) ==
    IF ~downsample.given
    THEN [exc |-> "", downsample |-> NoneFreq, ds |-> 1]
    ELSE LET c == check_downsampling(sf, downsample.hz)
         IN  IF c.exc # "" THEN [exc |-> c.exc, downsample |-> NoneFreq, ds |-> 0]
             ELSE [exc |-> "", downsample |-> SomeFreq(c.val),
                   ds |-> NpRound(sf.num * c.val.den, sf.den * c.val.num)]

\* range(0, n)[::ds], ds >= 1: the sample indices kept by a[:, ::ds]
RECURSIVE SliceFrom(_, _, _)
SliceFrom(i, n, ds) == IF i >= n THEN <<>> ELSE <<i>> \o SliceFrom(i + ds, n, ds)

\* What a reader hands back: the exception that ended it or the tuple it
\* returns, with the file reads done before
Failed(e, io) ==
    [exc |-> e, io |-> io, sf |-> Rat(0, 1), downsample |-> NoneFreq, ds |-> 0,
     rows |-> <<>>, cols |-> <<>>, chan |-> <<>>, N |-> 0]

Recording(sf, d, rows, chan, N, io) ==
    [exc |-> "", io |-> io, sf |-> sf, downsample |-> d.downsample, ds |-> d.ds,
     rows |-> rows, cols |-> SliceFrom(0, N, d.ds), chan |-> chan, N |-> N]

\* The tail every reader ends with: decimate, slice, return
Finish(sf, downsample, rows, chan, N, io) ==
    LET d == Decimate(sf, downsample)
    IN  IF d.exc # "" THEN Failed(d.exc, io)
        ELSE Recording(sf, d, rows, chan, N, io)

----------------------------------------------------------------------------
(* The four readers. c is what the files hold. *)

\* chan = ent[10:10 + nb_chan_data]
ElanChanAll(names, nb_chan_data) == names

ElanChan(names, nb_chan_data) == SubSeq(names, 1, nb_chan_data)

\* nb_samples = int(nb_bytes / (nb_oct * nb_chan))
ElanSamples(nb_bytes, nb_oct, nb_chan) == nb_bytes \div (nb_oct * nb_chan)

elan2array(c, downsample) ==
    IF ~c.header_exists THEN Failed("AssertionError", <<>>)
    ELSE IF c.version \notin {"V2", "V3"}
    THEN Failed("UnboundLocalError", <<"read_header">>)        \* nb_oct was never set
    ELSE LET nb_oct       == IF c.version = "V2" THEN 2 ELSE 4
             sf           == Rat(1000000, c.period_us)         \* 1. / float(ent[8])
             nb_chan      == c.nb_chan
             nb_chan_data == nb_chan - 2
             chan_list    == [i \in 1..nb_chan_data |-> i - 1]
             chan         == ElanChan(c.names, nb_chan_data)
             N            == ElanSamples(c.nb_bytes, nb_oct, nb_chan)
         IN  Finish(sf, downsample, chan_list, chan, N, <<"read_header", "map_data">>)

\* Edf(path), return_hdr and return_dat of visbrain.utils.sleep.edf: the
\* header fields, and the samples of a channel subset over a sample range
EdfReturnDat(chan, begsam, endsam) == [rows |-> chan, n |-> endsam - begsam]

\* freqs.max() over hdr['n_samples_per_record']
RECURSIVE SeqMax(_)
SeqMax(a) == IF Len(a) = 1 THEN a[1]
             ELSE LET m == SeqMax(Tail(a)) IN IF a[1] >= m THEN a[1] ELSE m

\* np.delete(chan, np.where(n_samples_per_record < sf))
EdfKeep(c, sf) ==
    LET F[i \in 0..Len(c.rates)] ==
            IF i = 0 THEN <<>>
            ELSE IF c.rates[i] < sf THEN F[i - 1] ELSE Append(F[i - 1], i)
    IN  F[Len(c.rates)]

edf2array(c, downsample) ==
    LET sf   == SeqMax(c.rates)
        chan == IF Cardinality({c.rates[i] : i \in DOMAIN c.rates}) # 1
                THEN EdfKeep(c, sf) ELSE [i \in DOMAIN c.rates |-> i]
        data == EdfReturnDat(chan, 0, c.n_samples)
    IN  Finish(Rat(sf, 1), downsample, data.rows, chan, data.n,
               <<"read_header", "read_data">>)

brainvision2array(c, downsample) ==
    IF c.ext # ".eeg" \/ ~c.header_exists THEN Failed("AssertionError", <<>>)
    ELSE IF c.h_vers \in {1, 2} /\ ~c.int16
    THEN Failed("AssertionError", <<"read_header">>)
    ELSE LET io1 == <<"read_header">> \o (IF c.marker THEN <<"read_marker">> ELSE <<>>)
             io2 == io1 \o <<"read_data">>
             sf  == Rat(1000000, c.si)                         \* 1 / (si * 0.000001)
             chan == [i \in 1..c.n_chan |-> i]
             size == c.raw_len \div 2
             N    == size \div c.n_chan
         IN  IF c.h_vers \notin {1, 2} THEN Failed("UnboundLocalError", io1)  \* n_chan
             ELSE IF ~c.multiplexed \/ ~c.binary THEN Failed("AssertionError", io1)
             ELSE Finish(sf, downsample, chan, chan, N, io2)

micromed2array(c, downsample) ==
    IF c.header_version # 4 THEN Failed("AssertionError", <<"read_header">>)
    ELSE IF c.size % c.n_chan # 0
    THEN Failed("ValueError", <<"read_header", "read_data">>)  \* reshape
    ELSE LET chan == [i \in 1..c.n_chan |-> i]
             N    == c.size \div c.n_chan
         IN  Finish(Rat(c.sf, 1), downsample, chan, chan, N,
                    <<"read_header", "read_data", "read_labels">>)

----------------------------------------------------------------------------
(* load_sleepdataset: the choice of the reader *)

\* os.path.splitext(path)
SplitExt(path) ==
    IF Len(path) > 1
    THEN [file |-> SubSeq(path, 1, Len(path) - 1), ext |-> path[Len(path)]]
    ELSE [file |-> path, ext |-> ""]

\* ext.lower()
Lower(ext) ==
    CASE ext = ".EEG" -> ".eeg"
      [] ext = ".EDF" -> ".edf"
      [] ext = ".TRC" -> ".trc"
      [] OTHER        -> ext

\* The header elan2array reads, and the one brainvision2array reads
ElanHeaderOf(path)        == Append(path, ".ent")
BrainVisionHeaderOf(path) == Append(SplitExt(path).file, ".vhdr")
BrainVisionMarkerOf(path) == Append(SplitExt(path).file, ".vmrk")

\* The branches of load_sleepdataset: the reader called, or the exception
DispatchSameStem(dir, path) ==
    LET file == SplitExt(path).file
        ext  == Lower(SplitExt(path).ext)
    IN  IF path \notin dir THEN [reader |-> "none", exc |-> "AssertionError"]
        ELSE IF ext = ".eeg"
        THEN IF Append(file, ".ent") \in dir THEN [reader |-> "elan2array", exc |-> ""]
             ELSE IF Append(file, ".vhdr") \in dir
             THEN [reader |-> "brainvision2array", exc |-> ""]
             ELSE [reader |-> "none", exc |-> "ValueError"]
        ELSE IF ext = ".edf" THEN [reader |-> "edf2array", exc |-> ""]
        ELSE IF ext = ".trc" THEN [reader |-> "micromed2array", exc |-> ""]
        ELSE [reader |-> "none", exc |-> "ValueError"]

Dispatch(dir, path) ==
    LET file == SplitExt(path).file
        ext  == Lower(SplitExt(path).ext)
    IN  IF path \notin dir THEN [reader |-> "none", exc |-> "AssertionError"]
        ELSE IF ext = ".eeg"
        THEN IF Append(path, ".ent") \in dir THEN [reader |-> "elan2array", exc |-> ""]
             ELSE IF Append(file, ".vhdr") \in dir
             THEN [reader |-> "brainvision2array", exc |-> ""]
             ELSE [reader |-> "none", exc |-> "ValueError"]
        ELSE IF ext = ".edf" THEN [reader |-> "edf2array", exc |-> ""]
        ELSE IF ext = ".trc" THEN [reader |-> "micromed2array", exc |-> ""]
        ELSE [reader |-> "none", exc |-> "ValueError"]

----------------------------------------------------------------------------
(* Inputs of the readers *)

Paths ==
    { <<"rec", ".eeg">>, <<"rec", ".EEG">>, <<"rec", ".edf">>, <<"rec", ".EDF">>,
      <<"rec", ".trc">>, <<"rec", ".TRC">>, <<"rec", ".txt">>, <<"rec">> }

Sidecars ==
    { <<"rec", ".ent">>, <<"rec", ".eeg", ".ent">>, <<"rec", ".EEG", ".ent">>,
      <<"rec", ".vhdr">>, <<"rec", ".vmrk">> }

Targets == {NoTarget} \cup {Target(f) : f \in {-100, 0, 40, 100, 200, 300, 500, 600}}

SamplePeriods == {2000, 10000}      \* microseconds: 500 Hz and 100 Hz
SampleRates   == {100, 500}

ElanFiles(header_exists) ==
    { [header_exists |-> header_exists, version |-> v, period_us |-> p, nb_chan |-> C,
       names |-> [i \in 1..C |-> i],
       nb_bytes |-> n * (IF v = "V3" THEN 4 ELSE 2) * C + extra] :
         v \in {"V2", "V3", "V1"}, p \in SamplePeriods, C \in 2..MaxChan,
         n \in 1..MaxSamples, extra \in {0, 1} }

EdfFiles ==
    { [rates |-> r, n_samples |-> n] :
         r \in {x \in SeqsUpTo(SampleRates, MaxChan) : Len(x) >= 1}, n \in 1..MaxSamples }

BrainVisionFiles(ext, header_exists, marker) ==
    { [ext |-> ext, header_exists |-> header_exists, marker |-> marker,
       h_vers |-> v, si |-> p, n_chan |-> C,
       int16 |-> f # "notINT16", multiplexed |-> f # "notMUX", binary |-> f # "notBIN",
       raw_len |-> 2 * n * C + extra] :
         v \in {1, 2, 3}, p \in SamplePeriods, C \in 1..MaxChan,
         f \in {"ok", "notINT16", "notMUX", "notBIN"},
         n \in 1..MaxSamples, extra \in {0, 1} }

MicromedFiles ==
    { [header_version |-> v, n_chan |-> C, sf |-> f, size |-> n * C + extra] :
         v \in {4, 3}, C \in 1..MaxChan, f \in SampleRates,
         n \in 1..MaxSamples, extra \in {0, 1} }

----------------------------------------------------------------------------
(* The readers as steps *)

InitRecording ==
    /\ pc = "idle"
    /\ call = NoCall
    /\ hypFile = NoFile

\* load_sleepdataset(path, downsample) up to the call of the reader
LoadSleepDataset ==
    /\ pc = "idle"
    /\ hypFile = NoFile
    /\ \E path \in Paths, side \in SUBSET Sidecars, there \in BOOLEAN, t \in Targets :
          LET dir == side \cup (IF there THEN {path} ELSE {})
              d   == Dispatch(dir, path)
          IN  /\ call' = [op |-> "load_sleepdataset", path |-> path, dir |-> dir,
                          downsample |-> t, reader |-> d.reader, exc |-> d.exc]
              /\ pc' = IF d.exc = "" THEN "dispatched" ELSE "done"
    /\ UNCHANGED hypFile

\* A reader runs for load_sleepdataset, or is called on its own
Called(reader) ==
    \/ pc = "idle" /\ hypFile = NoFile
    \/ pc = "dispatched" /\ call.reader = reader

Via == IF pc = "dispatched" THEN "load_sleepdataset" ELSE "direct"

Given == IF pc = "dispatched" THEN {call.downsample} ELSE Targets

Elan2Array ==
    /\ Called("elan2array")
    /\ \E t \in Given, h \in BOOLEAN :
         /\ pc = "dispatched" => h = (ElanHeaderOf(call.path) \in call.dir)
         /\ \E c \in ElanFiles(h) :
               call' = [op |-> "elan2array", via |-> Via, c |-> c, downsample |-> t,
                        ret |-> elan2array(c, t)]
    /\ pc' = "done"
    /\ UNCHANGED hypFile

Edf2Array ==
    /\ Called("edf2array")
    /\ \E t \in Given, c \in EdfFiles :
          call' = [op |-> "edf2array", via |-> Via, c |-> c, downsample |-> t,
                   ret |-> edf2array(c, t)]
    /\ pc' = "done"
    /\ UNCHANGED hypFile

BrainVision2Array ==
    /\ Called("brainvision2array")
    /\ \E t \in Given, h \in BOOLEAN, m \in BOOLEAN, e \in {".eeg", ".EEG"} :
         /\ pc = "dispatched" =>
               /\ h = (BrainVisionHeaderOf(call.path) \in call.dir)
               /\ m = (BrainVisionMarkerOf(call.path) \in call.dir)
               /\ e = SplitExt(call.path).ext
         /\ \E c \in BrainVisionFiles(e, h, m) :
               call' = [op |-> "brainvision2array", via |-> Via, c |-> c,
                        downsample |-> t, ret |-> brainvision2array(c, t)]
    /\ pc' = "done"
    /\ UNCHANGED hypFile

Micromed2Array ==
    /\ Called("micromed2array")
    /\ \E t \in Given, c \in MicromedFiles :
          call' = [op |-> "micromed2array", via |-> Via, c |-> c, downsample |-> t,
                   ret |-> micromed2array(c, t)]
    /\ pc' = "done"
    /\ UNCHANGED hypFile

NextRecording ==
    \/ LoadSleepDataset
    \/ Elan2Array
    \/ Edf2Array
    \/ BrainVision2Array
    \/ Micromed2Array

SpecRecording == InitRecording /\ [][NextRecording]_vars

----------------------------------------------------------------------------
(* The module as a whole: any one of its functions is called on the files on
   disk; the specifications above are its restrictions to one family of calls *)

Init == InitHypno

Next ==
    \/ LoadHypno
    \/ SwapHypValues
    \/ SaveHypnoToElan
    \/ SaveHypnoTotxt
    \/ LoadSleepDataset
    \/ Elan2Array
    \/ Edf2Array
    \/ BrainVision2Array
    \/ Micromed2Array

Spec == Init /\ [][Next]_vars

----------------------------------------------------------------------------
(* What the claims speak of, stated apart from the operators above *)

CanonicalStages == {-1, 0, 1, 2, 3, 4}

\* The simultaneous ELAN mapping {-2 -> -1, 4 -> 3, 5 -> 4}
ElanSimultaneous(v) ==
    CASE v = -2 -> -1
      [] v = 4  -> 3
      [] v = 5  -> 4
      [] OTHER  -> v

\* The canonical stage of each vendor label
StageOfLabel(l) ==
    CASE l = "W"   -> 0
      [] l = "N1"  -> 1
      [] l = "N2"  -> 2
      [] l = "N3"  -> 3
      [] l = "N4"  -> 3
      [] l = "REM" -> 4
      [] OTHER     -> -1

KnownLabels == {"W", "N1", "N2", "N3", "N4", "REM", "Art", "Nde", "Mt"}

\* A description gives distinct labels distinct codes, one line per label
DistinctCodes(desc) ==
    \A i, j \in DOMAIN desc :
        i # j => desc[i].label # desc[j].label /\ desc[i].value # desc[j].value

\* The stage the description gives a raw code: that of the known label whose
\* code it is, -1 when it is the code of none
StageByDesc(desc, v) ==
    IF \E i \in DOMAIN desc : desc[i].label \in KnownLabels /\ desc[i].value = v
    THEN StageOfLabel(desc[CHOOSE i \in DOMAIN desc :
                               desc[i].label \in KnownLabels /\ desc[i].value = v].label)
    ELSE -1

\* The raw stage sequence a hypnogram file holds
RawStages(file) ==
    LET ls == IF file.ext = ".hyp" THEN SubSeq(file.lines, 5, Len(file.lines))
              ELSE SelectSeq(file.lines, IsInt)
    IN  [i \in DOMAIN ls |-> ls[i].val]

\* A file load_hypno can parse: an ELAN file with text among its first four
\* lines and integers after them, a text file with its description beside it
Parsable(file) ==
    /\ file.exists
    /\ file.ext \in {".hyp", ".txt", ".csv"}
    /\ file.ext = ".hyp" =>
          /\ \E i \in 1..Min(4, Len(file.lines)) : ~IsInt(file.lines[i])
          /\ \A i \in 5..Len(file.lines) : IsInt(file.lines[i])
    /\ file.ext # ".hyp" => file.desc.exists

\* The canonical stage of a raw code of the file
Canonical(file, v) ==
    IF file.ext = ".hyp" THEN ElanSimultaneous(v) ELSE StageByDesc(file.desc.lines, v)

Loaded == call.op = "load_hypno"

----------------------------------------------------------------------------
(* Claims on the hypnogram loader *)

C3_AnyCodeCanonical ==
    (Loaded /\ call.ret.kind = "array") =>
        \A i \in DOMAIN call.ret.val : call.ret.val[i] \in CanonicalStages

\* C3 amended: on the .txt/.csv path every value of a non-null hypnogram is
\* canonical whatever codes the file holds; on the .hyp path it is when every
\* code after the four header lines is in -2..5, and any other code is
\* returned as it is.
C3_CanonicalValues ==
    (Loaded /\ call.ret.kind = "array") =>
        LET raw == RawStages(call.file)
        IN  /\ call.file.ext \in {".txt", ".csv"} =>
                  \A i \in DOMAIN call.ret.val : call.ret.val[i] \in CanonicalStages
            /\ (call.file.ext = ".hyp" /\ \A k \in DOMAIN raw : raw[k] \in -2..5) =>
                  \A i \in DOMAIN call.ret.val : call.ret.val[i] \in CanonicalStages
            /\ call.file.ext = ".hyp" =>
                  \A i \in DOMAIN call.ret.val :
                      call.ret.val[i] \notin CanonicalStages =>
                          \E k \in DOMAIN raw :
                              raw[k] = call.ret.val[i] /\ raw[k] \notin -2..5

\* C3 witness: a text file holding a code its description does not know
C3_Witness ==
    /\ Loaded
    /\ call.file.ext = ".txt"
    /\ call.file.desc = DreamDesc
    /\ RawStages(call.file) = <<6, 5>>
    /\ call.npts = 2
    /\ call.ret.kind = "array"
    /\ call.ret.val = <<-1, 0>>

\* C4 as stated: when the file holds more stage values than npts, load_hypno
\* fails with an error that reaches the caller; it returns neither a
\* sequence nor null.
C4_MismatchIsFatal ==
    (Loaded /\ Parsable(call.file) /\ Len(RawStages(call.file)) > call.npts) =>
        call.ret.kind = "raise"

\* C5: for an existing path load_hypno never raises: it returns a sequence
\* or null, and null on malformed content or a missing description file.
C5_NeverRaises ==
    (Loaded /\ call.file.exists) =>
        /\ call.ret.kind \in {"array", "None"}
        /\ call.ret.kind = "array" =>
              (Parsable(call.file) /\ Len(call.ret.val) = call.npts)
        /\ ~Parsable(call.file) => call.ret.kind = "None"

\* C5 witness: a text file without its description ends in null
C5_Witness ==
    /\ Loaded
    /\ call.file.ext = ".txt"
    /\ ~call.file.desc.exists
    /\ Len(RawStages(call.file)) = 2
    /\ call.npts = 4
    /\ call.ret.kind = "None"
    /\ call.ret.exc = "AssertionError"

\* C7: the .hyp loader skips the first four lines and maps every remaining
\* code by the simultaneous mapping {-2 -> -1, 4 -> 3, 5 -> 4}; the in-place
\* reassignments of the code remap no value twice.
C7_ElanRemap ==
    (Loaded /\ call.file.ext = ".hyp" /\ Parsable(call.file)
        /\ Len(call.file.lines) > 4 /\ call.npts = Len(call.file.lines) - 4) =>
        /\ call.ret.kind = "array"
        /\ call.ret.val =
              [i \in 1..call.npts |-> ElanSimultaneous(call.file.lines[i + 4].val)]

\* C7 witness: the codes -2, 4, 5 after a full header
C7_Witness ==
    /\ Loaded
    /\ call.file.ext = ".hyp"
    /\ call.file.lines = ElanHeader(1, 0) \o <<IntLine(-2), IntLine(4), IntLine(5)>>
    /\ call.npts = 3
    /\ call.ret.kind = "array"
    /\ call.ret.val = <<-1, 3, 4>>

----------------------------------------------------------------------------
(* Claim on swap_hyp_values *)

\* C8: for a description of distinct codes, swap_hyp_values maps the code of
\* W to 0, N1 to 1, N2 to 2, N3 and N4 to 3, REM to 4, Art, Nde and Mt to -1
\* and the code of no known label to -1; the result is as long as the input,
\* which is left as it was.
C8_SwapValues ==
    (call.op = "swap_hyp_values" /\ DistinctCodes(call.desc)) =>
        /\ Len(call.after.hypno_s) = Len(call.hypno)
        /\ \A i \in DOMAIN call.hypno :
              call.after.hypno_s[i] = StageByDesc(call.desc, call.hypno[i])
        /\ call.after.hypno = call.hypno

\* C8 witness: N4 and REM described, an unmapped code in the hypnogram
C8_Witness ==
    /\ call.op = "swap_hyp_values"
    /\ call.desc = <<DescLine("N4", 0), DescLine("REM", 5)>>
    /\ call.hypno = <<5, 0>>
    /\ call.after.hypno_s = <<4, 3>>

----------------------------------------------------------------------------
(* Claim on the round trip *)

\* The hypnogram is constant within each epoch of sf samples
EpochConstant(h, sf) ==
    \A i, j \in DOMAIN h : (i - 1) \div sf = (j - 1) \div sf => h[i] = h[j]

\* The arguments are those of one recording: N samples at sfori, kept one
\* in ds, leave n samples at sf
OneRecording(n, sf, sfori, N) ==
    \E ds \in 1..sfori : sfori = sf * ds /\ n = CeilDiv(N, ds)

\* C6 as stated: a canonical hypnogram of length n, constant within each
\* epoch, written by save_hypnoToElan and reloaded by load_hypno(path, n)
\* comes back as it was.
C6_RoundTrip ==
    [][(/\ call.op = "save_hypnoToElan"
        /\ call.ret.exc = ""
        /\ EpochConstant(call.hypno, call.sf)
        /\ OneRecording(Len(call.hypno), call.sf, call.sfori, call.N)
        /\ call'.op = "load_hypno"
        /\ call'.npts = Len(call.hypno))
       => (call'.ret.kind = "array" /\ call'.ret.val = call.hypno)]_vars

----------------------------------------------------------------------------
(* Claim on the dispatcher *)

Dispatched == call.op = "load_sleepdataset" /\ call.path \in call.dir

NoReader == call.reader = "none" /\ call.exc = "ValueError" /\ pc = "done"

Selected(reader) == call.reader = reader /\ call.exc = "" /\ pc = "dispatched"

\* The table of the dispatcher, the ELAN header being the file elanHeader
DispatchTable(elanHeader) ==
    LET stem == SplitExt(call.path).file
        ext  == Lower(SplitExt(call.path).ext)
    IN  /\ ext = ".edf" => Selected("edf2array")
        /\ ext = ".trc" => Selected("micromed2array")
        /\ ext = ".eeg" =>
              IF elanHeader \in call.dir THEN Selected("elan2array")
              ELSE IF Append(stem, ".vhdr") \in call.dir THEN Selected("brainvision2array")
              ELSE NoReader
        /\ ext \notin {".edf", ".trc", ".eeg"} => NoReader

\* C1 as stated: .eeg selects the ELAN reader when the file of the same stem
\* and extension .ent exists, else the BrainVision reader when the one of
\* extension .vhdr exists, else fails; .edf and .trc select their readers and
\* every other extension fails.
C1_SameStemEnt ==
    Dispatched => DispatchTable(Append(SplitExt(call.path).file, ".ent"))

\* C1 amended: as C1, the ELAN header being the file named by the whole path
\* followed by .ent (rec.eeg.ent for rec.eeg); the reader selected finds the
\* header it requires, and no reader is called when the outcome is the error.
C1_Dispatch ==
    Dispatched =>
        /\ DispatchTable(Append(call.path, ".ent"))
        /\ call.reader = "elan2array" => ElanHeaderOf(call.path) \in call.dir
        /\ call.reader = "brainvision2array" => BrainVisionHeaderOf(call.path) \in call.dir
        /\ call.exc # "" => (call.reader = "none" /\ pc = "done")

\* C1 witness: rec.EEG beside rec.EEG.ent and rec.vhdr goes to the ELAN reader
C1_Witness ==
    /\ call.op = "load_sleepdataset"
    /\ call.path = <<"rec", ".EEG">>
    /\ call.dir = {<<"rec", ".EEG">>, <<"rec", ".EEG", ".ent">>, <<"rec", ".vhdr">>}
    /\ call.reader = "elan2array"
    /\ pc = "dispatched"

----------------------------------------------------------------------------
(* Claims on the readers *)

ReaderCall ==
    call.op \in {"elan2array", "edf2array", "brainvision2array", "micromed2array"}

\* The files are ones the reader reads through to its decimation block
Readable ==
    CASE call.op = "elan2array" ->
            call.c.header_exists /\ call.c.version \in {"V2", "V3"}
      [] call.op = "brainvision2array" ->
            /\ call.c.ext = ".eeg" /\ call.c.header_exists /\ call.c.h_vers \in {1, 2}
            /\ call.c.int16 /\ call.c.multiplexed /\ call.c.binary
      [] call.op = "micromed2array" ->
            call.c.header_version = 4 /\ call.c.size % call.c.n_chan = 0
      [] OTHER -> TRUE

\* The source frequency as a fraction <<num, den>>
SourceFreq ==
    CASE call.op = "elan2array"        -> <<1000000, call.c.period_us>>
      [] call.op = "brainvision2array" -> <<1000000, call.c.si>>
      [] call.op = "micromed2array"    -> <<call.c.sf, 1>>
      [] OTHER -> <<CHOOSE m \in {call.c.rates[i] : i \in DOMAIN call.c.rates} :
                        \A i \in DOMAIN call.c.rates : call.c.rates[i] <= m, 1>>

\* f equals the fraction q
SameFreq(f, q) == f.num * q[2] = q[1] * f.den

\* s is the integer nearest to sf / hz, the even one of two equally near
Nearest(s, sf, hz) ==
    LET twice == 2 * (sf[1] - s * sf[2] * hz)       \* 2 * (sf / hz - s) * (den * hz)
        unit  == sf[2] * hz
    IN  /\ twice <= unit /\ -twice <= unit
        /\ (twice = unit \/ -twice = unit) => s % 2 = 0

\* The columns are the samples 0, s, 2s, ... below N
EveryNth(s) ==
    /\ \A k \in DOMAIN call.ret.cols : call.ret.cols[k] = (k - 1) * s
    /\ Len(call.ret.cols) * s >= call.ret.N

\* A valid target: stride round(sf / target), reported frequency sf / stride
ValidTarget ==
    LET sf == SourceFreq
        hz == call.downsample.hz
    IN  (call.downsample.given /\ hz > 0 /\ hz * sf[2] <= sf[1]) =>
            /\ call.ret.exc = ""
            /\ Nearest(call.ret.ds, sf, hz)
            /\ EveryNth(call.ret.ds)
            /\ ~call.ret.downsample.none
            /\ SameFreq(call.ret.downsample, <<sf[1], sf[2] * call.ret.ds>>)

\* A target <= 0 or > sf is refused
BadTarget ==
    LET sf == SourceFreq
        hz == call.downsample.hz
    IN  (call.downsample.given /\ (hz <= 0 \/ hz * sf[2] > sf[1])) =>
            call.ret.exc = "ValueError"

\* C9 as stated: with no target the stride is 1 and the frequency reported
\* is sf; with a valid target the stride is round(sf / target) and the
\* frequency reported is sf / stride; a target <= 0 or > sf is refused.
C9_ReportsSourceFreq ==
    (ReaderCall /\ Readable) =>
        /\ ~call.downsample.given =>
              /\ call.ret.exc = ""
              /\ call.ret.ds = 1
              /\ EveryNth(1)
              /\ ~call.ret.downsample.none
              /\ SameFreq(call.ret.downsample, SourceFreq)
        /\ ValidTarget
        /\ BadTarget

\* C9 amended: with no target the stride is 1 and the reader returns None as
\* downsample frequency beside the source frequency sf; the rest as stated.
C9_Decimation ==
    (ReaderCall /\ Readable) =>
        /\ ~call.downsample.given =>
              /\ call.ret.exc = ""
              /\ call.ret.ds = 1
              /\ EveryNth(1)
              /\ call.ret.downsample.none
              /\ SameFreq(call.ret.sf, SourceFreq)
        /\ ValidTarget
        /\ BadTarget

\* C9 witness: sf = 500 and target = 100 give stride 5 and frequency 100
C9_Witness ==
    /\ call.op = "elan2array"
    /\ Readable
    /\ call.c.period_us = 2000
    /\ call.downsample = Target(100)
    /\ call.ret.exc = ""
    /\ call.ret.ds = 5
    /\ call.ret.downsample = [none |-> FALSE, num |-> 100, den |-> 1]
    /\ call.ret.cols = <<0, 5>>

\* The least k with k * b >= a
CeilOf(a, b) == CHOOSE k \in 0..a : k * b >= a /\ (k = 0 \/ (k - 1) * b < a)

\* C10: a Recording has as many rows as channel names and ceil(N / stride)
\* columns; the ELAN reader of a header declaring C channels returns C - 2
\* names and rows, N being file_size / (word_size * C).
C10_Shape ==
    (ReaderCall /\ call.ret.exc = "") =>
        /\ Len(call.ret.rows) = Len(call.ret.chan)
        /\ Len(call.ret.cols) = CeilOf(call.ret.N, call.ret.ds)
        /\ call.op = "elan2array" =>
              LET word == IF call.c.version = "V2" THEN 2 ELSE 4
                  C    == call.c.nb_chan
              IN  /\ Len(call.ret.chan) = C - 2
                  /\ Len(call.ret.rows) = C - 2
                  /\ call.ret.N * word * C <= call.c.nb_bytes
                  /\ call.c.nb_bytes < (call.ret.N + 1) * word * C

\* C10 witness: an ELAN header of 4 channels, 2 names and rows, 5 samples
\* kept one in 2
C10_Witness ==
    /\ call.op = "elan2array"
    /\ call.ret.exc = ""
    /\ call.c.nb_chan = 4
    /\ call.ret.chan = <<1, 2>>
    /\ call.ret.rows = <<0, 1>>
    /\ call.ret.N = 5
    /\ call.ret.ds = 2
    /\ call.ret.cols = <<0, 2, 4>>

\* The target given is <= 0 or > sf
OutOfRange ==
    /\ call.downsample.given
    /\ \/ call.downsample.hz <= 0
       \/ call.downsample.hz * SourceFreq[2] > SourceFreq[1]

\* C11: in every reader an out-of-range target is refused before any file
\* I/O: no header read, data read or memory mapping precedes the refusal.
C11_RejectedBeforeIO ==
    (ReaderCall /\ Readable /\ OutOfRange) =>
        (call.ret.exc = "ValueError" /\ call.ret.io = <<>>)

----------------------------------------------------------------------------
(* Claim on the writers *)

WriterCall == call.op \in {"save_hypnoToElan", "save_hypnoTotxt"} /\ call.ret.exc = ""

\* The integer nearest to a / b, the even one of two equally near
RoundOf(a, b) ==
    CHOOSE s \in 0..(a + 1) :
        /\ 2 * (a - s * b) <= b /\ 2 * (s * b - a) <= b
        /\ (2 * (a - s * b) = b \/ 2 * (s * b - a) = b) => s % 2 = 0

\* a[0], a[step], a[2 * step], ... each through f
EveryStep(a, step, f(_)) ==
    [k \in 1..CeilOf(Len(a), step) |-> f(a[(k - 1) * step + 1])]

ToElanStage(v) == IF v = 4 THEN 5 ELSE v

SameStage(v) == v

\* The lines of the file written, from line i on, as integers
StageLines(i) ==
    [k \in 1..(Len(hypFile.lines) - i + 1) |-> hypFile.lines[k + i - 1].val]

\* C12 as stated: both writers emit hypno[0], hypno[step], ... with
\* step = round(len(hypno) / round(N / sfori)); save_hypnoToElan writes 4 as
\* 5 and the other stages unchanged, after exactly the four header lines
\* time_base, sampling_period, epoch_nb, epoch_list, and writes as many
\* stage lines as the epoch_nb of its header says.
C12_OneValuePerEpoch ==
    WriterCall =>
        LET step == RoundOf(Len(call.hypno), RoundOf(call.N, call.sfori))
        IN  /\ step >= 1
            /\ call.op = "save_hypnoTotxt" =>
                  /\ \A k \in DOMAIN hypFile.lines : IsInt(hypFile.lines[k])
                  /\ StageLines(1) = EveryStep(call.hypno, step, SameStage)
            /\ call.op = "save_hypnoToElan" =>
                  /\ Len(hypFile.lines) >= 4
                  /\ [k \in 1..4 |-> hypFile.lines[k].key] =
                        <<"time_base", "sampling_period", "epoch_nb", "epoch_list">>
                  /\ \A k \in 5..Len(hypFile.lines) : IsInt(hypFile.lines[k])
                  /\ StageLines(5) = EveryStep(call.hypno, step, ToElanStage)
                  /\ Len(hypFile.lines) - 4 = hypFile.lines[3].val

====
